---- MODULE Spec2Model ----
(***************************************************************************)
(* Trace-context codecs of aiojaeger / aiozipkin:                          *)
(*   src/aiojaeger/spancontext/jaeger.py   JaegerConst, JaegerTraceContext *)
(*   src/aiozipkin/spancontext/__init__.py BaseTraceContext,               *)
(*                                         DummyTraceContext               *)
(*                                                                         *)
(* A Python str is modelled as a sequence of one-character strings, so     *)
(* that split, int(s, 16), str.lower and f-string formatting are computed  *)
(* character by character, as the interpreter computes them.               *)
(***************************************************************************)
EXTENDS Integers, Sequences, FiniteSets, TLC

(***************************************************************************)
(* Bounds of the model.                                                    *)
(***************************************************************************)
\* ids given to the constructor and written by a remote peer: 0..MaxId, and
\* the larger LargeIds
MaxId == 3
\* flags written by a remote peer: 0..MaxFlags (bits above bit 1 included)
MaxFlags == 7
\* number of ':'-separated fields of a raw inbound header value: 1..MaxFields
MaxFields == 6

(***************************************************************************)
(* Python values.                                                          *)
(***************************************************************************)
\* None, where a str is expected (Optional[str] field, non-str header value)
NoneVal == <<"<None>">>

\* str(None), as an f-string renders it
NoneText == <<"N", "o", "n", "e">>

LowerLetters == <<"a", "b", "c", "d", "e", "f", "g", "h", "i", "j", "k", "l", "m",
                  "n", "o", "p", "q", "r", "s", "t", "u", "v", "w", "x", "y", "z">>

UpperLetters == <<"A", "B", "C", "D", "E", "F", "G", "H", "I", "J", "K", "L", "M",
                  "N", "O", "P", "Q", "R", "S", "T", "U", "V", "W", "X", "Y", "Z">>

DecDigits == <<"0", "1", "2", "3", "4", "5", "6", "7", "8", "9">>

\* str.lower() of one character
LowerChar(c) ==
    IF \E i \in 1..26 : UpperLetters[i] = c
    THEN LowerLetters[CHOOSE i \in 1..26 : UpperLetters[i] = c]
    ELSE c

\* str.lower()
Lower(s) == [i \in 1..Len(s) |-> LowerChar(s[i])]

\* str(n) of an int: the decimal numeral, '-' in front of a negative one
RECURSIVE NatToStr(_)
NatToStr(n) ==
    IF n < 10 THEN <<DecDigits[n + 1]>>
    ELSE NatToStr(n \div 10) \o <<DecDigits[(n % 10) + 1]>>

IntToStr(n) == IF n < 0 THEN <<"-">> \o NatToStr(-n) ELSE NatToStr(n)

\* what "{x}" in an f-string renders for a str or None
Format(x) == IF x = NoneVal THEN NoneText ELSE x

\* a | b and a & b on non-negative ints
RECURSIVE BitOr(_, _)
BitOr(a, b) ==
    IF a = 0 THEN b
    ELSE IF b = 0 THEN a
    ELSE (IF (a % 2 = 1) \/ (b % 2 = 1) THEN 1 ELSE 0) + 2 * BitOr(a \div 2, b \div 2)

RECURSIVE BitAnd(_, _)
BitAnd(a, b) ==
    IF a = 0 \/ b = 0 THEN 0
    ELSE (IF (a % 2 = 1) /\ (b % 2 = 1) THEN 1 ELSE 0) + 2 * BitAnd(a \div 2, b \div 2)

(***************************************************************************)
(* JaegerConst: constants.                                                 *)
(***************************************************************************)
TRACE_ID_HEADER == <<"u", "b", "e", "r", "-", "t", "r", "a", "c", "e", "-", "i", "d">>

SAMPLED_FLAG == 1

DEBUG_FLAG == 2

(***************************************************************************)
(* str.split(sep, maxsplit): at most maxsplit splits, so at most           *)
(* maxsplit + 1 parts; the rest of the text stays in the last part.        *)
(***************************************************************************)
FirstIndex(s, sep) ==
    IF \E i \in 1..Len(s) : s[i] = sep
    THEN CHOOSE i \in 1..Len(s) : s[i] = sep /\ \A j \in 1..(i - 1) : s[j] # sep
    ELSE 0

RECURSIVE split(_, _, _)
\* i: where the first sep of s is (0: nowhere)
SplitAt(s, sep, maxsplit, i) ==
    IF maxsplit = 0 \/ i = 0 THEN <<s>>
    ELSE <<SubSeq(s, 1, i - 1)>> \o split(SubSeq(s, i + 1, Len(s)), sep, maxsplit - 1)

split(s, sep, maxsplit) == SplitAt(s, sep, maxsplit, FirstIndex(s, sep))

(***************************************************************************)
(* int(s, 16): surrounding whitespace is stripped, then an optional sign,  *)
(* an optional 0x / 0X prefix (one '_' may follow it), then hex digits     *)
(* with single '_' between digits.  Anything else raises ValueError.       *)
(***************************************************************************)
HexLower == <<"0", "1", "2", "3", "4", "5", "6", "7", "8", "9", "a", "b", "c", "d", "e", "f">>

HexUpper == <<"0", "1", "2", "3", "4", "5", "6", "7", "8", "9", "A", "B", "C", "D", "E", "F">>

IsHexDigit(c) == \E i \in 1..16 : HexLower[i] = c \/ HexUpper[i] = c

HexDigitValue(c) == (CHOOSE i \in 1..16 : HexLower[i] = c \/ HexUpper[i] = c) - 1

RECURSIVE LStrip(_)
LStrip(s) == IF s # <<>> /\ Head(s) = " " THEN LStrip(Tail(s)) ELSE s

RECURSIVE RStrip(_)
RStrip(s) == IF s # <<>> /\ s[Len(s)] = " " THEN RStrip(SubSeq(s, 1, Len(s) - 1)) ELSE s

Strip(s) == RStrip(LStrip(s))

\* the digits after sign and prefix: non-empty, hex digits and '_' only, no '_'
\* first or last, no '__'
ValidDigits(d) ==
    /\ d # <<>>
    /\ \A i \in 1..Len(d) : IsHexDigit(d[i]) \/ d[i] = "_"
    /\ d[1] # "_"
    /\ d[Len(d)] # "_"
    /\ \A i \in 1..(Len(d) - 1) : ~(d[i] = "_" /\ d[i + 1] = "_")

RECURSIVE DigitsValue(_)
DigitsValue(d) ==
    IF d = <<>> THEN 0
    ELSE IF d[Len(d)] = "_" THEN DigitsValue(SubSeq(d, 1, Len(d) - 1))
    ELSE 16 * DigitsValue(SubSeq(d, 1, Len(d) - 1)) + HexDigitValue(d[Len(d)])

\* the text after an optional 0x / 0X and one optional '_' behind it
AfterPrefix(u) ==
    IF Len(u) >= 2 /\ u[1] = "0" /\ u[2] \in {"x", "X"}
    THEN IF Len(u) >= 3 /\ u[3] = "_" THEN SubSeq(u, 4, Len(u)) ELSE SubSeq(u, 3, Len(u))
    ELSE u

\* the text after an optional sign
AfterSign(t) == IF t # <<>> /\ t[1] \in {"+", "-"} THEN Tail(t) ELSE t

IntOfDigits(neg, d) ==
    IF ValidDigits(d)
    THEN [ok |-> TRUE, val |-> (IF neg THEN -1 ELSE 1) * DigitsValue(d), exc |-> ""]
    ELSE [ok |-> FALSE, val |-> 0, exc |-> "ValueError"]

IntOfStripped(t) == IntOfDigits(t # <<>> /\ t[1] = "-", AfterPrefix(AfterSign(t)))

\* to_int of parse_trace_id: [ok |-> TRUE, val] or the raised exception
to_int(s) == IntOfStripped(Strip(s))

(***************************************************************************)
(* BaseTraceContext: the record of six fields.  trace_id, span_id and      *)
(* parent_id are declared str (parent_id Optional[str]); BaseModel's        *)
(* validation of a str field given an int stores str(v), its decimal       *)
(* numeral.                                                                *)
(***************************************************************************)
NoneCtx == [kind |-> "None"]

str_validator(n) == IntToStr(n)

BaseTraceContext(trace_id, span_id, parent_id, sampled, debug, shared) ==
    [kind |-> "ctx", trace_id |-> trace_id, span_id |-> span_id, parent_id |-> parent_id,
     sampled |-> sampled, debug |-> debug, shared |-> shared]

\* class JaegerTraceContext(BaseTraceContext): the same fields
JaegerTraceContext(trace_id, span_id, parent_id, sampled, debug, shared) ==
    BaseTraceContext(trace_id, span_id, parent_id, sampled, debug, shared)

\* object.__setattr__ on a model instance: the class sets no Config that
\* forbids mutation, so the assignment takes effect
setattr(c, name, value) == [c EXCEPT ![name] = value]

(***************************************************************************)
(* A header mapping is a dict: here the sequence of its items, in          *)
(* insertion order, with distinct keys.                                    *)
(***************************************************************************)
Item(k, v) == [k |-> k, v |-> v]

HasKey(d, k) == \E i \in 1..Len(d) : d[i].k = k

\* d[k]; in a dict built by a comprehension the last item of a key wins
GetItem(d, k) == d[CHOOSE i \in 1..Len(d) : d[i].k = k /\ \A j \in (i + 1)..Len(d) : d[j].k # k].v

(***************************************************************************)
(* JaegerConst.make_trace_id                                               *)
(***************************************************************************)
\* a variant that assigns the flag where the code ors it in
EncodeFlagsAssigned(c) ==
    LET f0 == 0
        f1 == IF c.debug THEN DEBUG_FLAG ELSE f0
        f2 == IF c.sampled THEN SAMPLED_FLAG ELSE f1
    IN  f2

\* flags = 0; if c.debug: flags |= DEBUG_FLAG; if c.sampled: flags |= SAMPLED_FLAG
EncodeFlags(c) ==
    LET f0 == 0
        f1 == IF c.debug THEN BitOr(f0, DEBUG_FLAG) ELSE f0
        f2 == IF c.sampled THEN BitOr(f1, SAMPLED_FLAG) ELSE f1
    IN  f2

\* f"{c.trace_id}:{c.span_id}:{c.parent_id}:{flags}"
make_trace_id(c) ==
    Format(c.trace_id) \o <<":">> \o Format(c.span_id) \o <<":">> \o Format(c.parent_id)
        \o <<":">> \o IntToStr(EncodeFlags(c))

(***************************************************************************)
(* JaegerConst.parse_trace_id                                              *)
(***************************************************************************)
\* a variant that splits at most 3 times
SplitHeaderThrice(header_trace_id) == split(header_trace_id, ":", 3)

\* header_trace_id.split(":", 4)
SplitHeader(header_trace_id) == split(header_trace_id, ":", 4)

\* the local variable parts (empty when split raised)
ParseParts(header_trace_id) ==
    IF header_trace_id = NoneVal THEN <<>> ELSE SplitHeader(header_trace_id)

ParseFailed(e) ==
    [ok |-> FALSE, exc |-> e, trace_id |-> 0, span_id |-> 0, parent_id |-> 0, flags |-> 0]

\* lines 108-113: the four ints are made in order, then checked
CheckFields(trace_id, span_id, parent_id, flags) ==
    IF ~trace_id.ok THEN ParseFailed(trace_id.exc)
    ELSE IF ~span_id.ok THEN ParseFailed(span_id.exc)
    ELSE IF ~parent_id.ok THEN ParseFailed(parent_id.exc)
    ELSE IF ~flags.ok THEN ParseFailed(flags.exc)
    ELSE IF trace_id.val <= 0 \/ span_id.val <= 0 THEN ParseFailed("ValueError")
    ELSE IF parent_id.val < 0 \/ flags.val < 0 THEN ParseFailed("ValueError")
    ELSE [ok |-> TRUE, exc |-> "", trace_id |-> trace_id.val, span_id |-> span_id.val,
          parent_id |-> parent_id.val, flags |-> flags.val]

ParseFields(parts) ==
    IF Len(parts) # 4 THEN ParseFailed("ValueError")
    ELSE CheckFields(to_int(parts[1]), to_int(parts[2]), to_int(parts[3]), to_int(parts[4]))

\* the tuple returned, or the exception raised
parse_trace_id(header_trace_id) ==
    IF header_trace_id = NoneVal
    THEN ParseFailed("ValueError")  \* split raises AttributeError, re-raised as ValueError
    ELSE ParseFields(SplitHeader(header_trace_id))

(***************************************************************************)
(* JaegerConst.make_headers                                                *)
(***************************************************************************)
\* a variant whose make_trace_id returns nothing
make_headers_unset(context) == <<Item(TRACE_ID_HEADER, NoneVal)>>

make_headers(context) == <<Item(TRACE_ID_HEADER, make_trace_id(context))>>

(***************************************************************************)
(* JaegerConst.make_context                                                *)
(***************************************************************************)
\* a variant that looks the keys up as they are spelled
LowerKeysAsSpelled(headers) == headers

\* {k.lower(): v for k, v in headers.items()}
LowerKeys(headers) == [i \in 1..Len(headers) |-> Item(Lower(headers[i].k), headers[i].v)]

\* a variant that catches ValueError alone
CaughtValueError == {"ValueError"}

\* the exceptions the except clause catches
Caught == {"ValueError", "KeyError"}

\* cls.parse_trace_id(headers[cls.TRACE_ID_HEADER])
ParseHeader(lowered) ==
    IF HasKey(lowered, TRACE_ID_HEADER)
    THEN parse_trace_id(GetItem(lowered, TRACE_ID_HEADER))
    ELSE ParseFailed("KeyError")

\* a variant that reads both flags from the debug bit
ContextOfDebugBit(r) ==
    IF ~r.ok
    THEN IF r.exc \in {"ValueError", "KeyError"} THEN [ret |-> NoneCtx, exc |-> ""]
                                                ELSE [ret |-> NoneCtx, exc |-> r.exc]
    ELSE [ret |-> JaegerTraceContext(str_validator(r.trace_id), str_validator(r.span_id),
                                     str_validator(r.parent_id),
                                     BitAnd(r.flags, DEBUG_FLAG) # 0,
                                     BitAnd(r.flags, DEBUG_FLAG) # 0,
                                     FALSE),
          exc |-> ""]

\* the except clause, and the context built from the tuple
ContextOf(r) ==
    IF ~r.ok
    THEN IF r.exc \in Caught THEN [ret |-> NoneCtx, exc |-> ""]
                             ELSE [ret |-> NoneCtx, exc |-> r.exc]
    ELSE [ret |-> JaegerTraceContext(str_validator(r.trace_id), str_validator(r.span_id),
                                     str_validator(r.parent_id),
                                     BitAnd(r.flags, SAMPLED_FLAG) # 0,
                                     BitAnd(r.flags, DEBUG_FLAG) # 0,
                                     FALSE),
          exc |-> ""]

\* [ret |-> the value returned, exc |-> the exception that escapes ("" when none)]
make_context(headers) == ContextOf(ParseHeader(LowerKeys(headers)))

PartsOf(lowered) ==
    IF HasKey(lowered, TRACE_ID_HEADER)
    THEN ParseParts(GetItem(lowered, TRACE_ID_HEADER))
    ELSE <<>>

\* parts of the parse_trace_id call make_context makes (empty when none is made)
ContextParts(headers) == PartsOf(LowerKeys(headers))

(***************************************************************************)
(* DummyTraceContext                                                       *)
(***************************************************************************)
DUMMY_TRACE_ID == <<"d", "u", "m", "m", "y", "-", "t", "r", "a", "c", "e", "-", "i", "d">>

DUMMY_SPAN_ID == <<"d", "u", "m", "m", "y", "-", "s", "p", "a", "n", "-", "i", "d">>

DUMMY_PARENT_ID == <<"d", "u", "m", "m", "y", "-", "p", "a", "r", "e", "n", "t", "-", "i", "d">>

Dummy_make_headers == <<>>

\* a variant that ignores the sampled argument
Dummy_make_context_sampled(headers, sampled_arg) ==
    BaseTraceContext(DUMMY_TRACE_ID, DUMMY_SPAN_ID, DUMMY_PARENT_ID, TRUE, FALSE, FALSE)

\* sampled_arg: "omitted" (the default, True), "True" or "False"
Dummy_make_context(headers, sampled_arg) ==
    BaseTraceContext(DUMMY_TRACE_ID, DUMMY_SPAN_ID, DUMMY_PARENT_ID,
                     sampled_arg \in {"omitted", "True"}, FALSE, FALSE)

(***************************************************************************)
(* Inbound header mappings: what a remote peer, or anyone, may send.       *)
(***************************************************************************)
TitleKey == <<"U", "b", "e", "r", "-", "T", "r", "a", "c", "e", "-", "I", "d">>

UpperKey == <<"U", "B", "E", "R", "-", "T", "R", "A", "C", "E", "-", "I", "D">>

\* a header of the same family that is not the trace header
BaggageKey == <<"u", "b", "e", "r", "c", "t", "x", "-", "a">>

KeySpellings == {TRACE_ID_HEADER, TitleKey, UpperKey}


\* the hexadecimal numeral of n >= 0 a peer writes, in the given digits
RECURSIVE ToHex(_, _)
ToHex(n, digits) ==
    IF n < 16 THEN <<digits[n + 1]>>
    ELSE ToHex(n \div 16, digits) \o <<digits[(n % 16) + 1]>>

\* "lower": 1f, "upper": 1F, "padded": 01f (leading zero)
HexStyles == {"lower", "upper", "padded"}

\* how a peer spells the header name and the numerals
PeerDialects == KeySpellings \X HexStyles

PeerHex(n, style) ==
    CASE style = "lower" -> ToHex(n, HexLower)
      [] style = "upper" -> ToHex(n, HexUpper)
      [] OTHER -> <<"0">> \o ToHex(n, HexLower)

RECURSIVE Join(_, _)
Join(fields, sep) ==
    IF Len(fields) = 1 THEN fields[1]
    ELSE fields[1] \o <<sep>> \o Join(Tail(fields), sep)

\* texts a field of a raw header value may hold: empty, zero, positive, a
\* letter digit in either case, no digit, signed, prefixed, spaced with '_',
\* '_' in front
FieldTokens ==
    { <<>>, <<"0">>, <<"1">>, <<"a">>, <<"F">>, <<"g">>, <<"-", "1">>, <<"+", "2">>,
      <<"0", "x", "1", "f">>, <<" ", "1", "_", "0", " ">>, <<"_", "1">> }

\* texts of the fields of a value with more than 4 fields
ExtraTokens == { <<>>, <<"1">> }

FieldCounts == 1..MaxFields

TokensFor(n) == IF n <= 4 THEN FieldTokens ELSE ExtraTokens

\* mappings without the header, with a non-str value, with several items
OtherHeaders ==
    LET good == <<"1", ":", "2", ":", "0", ":", "1">>
        good2 == <<"3", ":", "4", ":", "0", ":", "2">>
        bad == <<"1", ":", "2">>
    IN  { <<>>,
          <<Item(BaggageKey, good)>>,
          <<Item(TRACE_ID_HEADER, NoneVal)>>,
          <<Item(TitleKey, NoneVal)>>,
          <<Item(BaggageKey, good), Item(TRACE_ID_HEADER, good2)>>,
          <<Item(TRACE_ID_HEADER, good2), Item(BaggageKey, good)>>,
          <<Item(TitleKey, good), Item(TRACE_ID_HEADER, good2)>>,
          <<Item(TRACE_ID_HEADER, good), Item(UpperKey, bad)>>,
          <<Item(UpperKey, bad), Item(TitleKey, good)>> }

(***************************************************************************)
(* State.                                                                  *)
(***************************************************************************)
VARIABLES
    context,      \* the context the application holds (NoneCtx: none)
    headers,      \* the header mapping at hand
    source,       \* where headers came from: "none", "inbound", "make_headers", "dummy"
    sent,         \* the numbers a well-formed inbound value was written from
    decoded,      \* what the last make_context call returned
    parts,        \* local parts of the parse_trace_id call of the last make_context
    last,         \* the last operation
    sampled_arg,  \* the sampled argument of the last DummyTraceContext.make_context
    raised        \* the exception that escaped the last operation ("": none)

vars == <<context, headers, source, sent, decoded, parts, last, sampled_arg, raised>>

\* ids with a letter digit, two decimal digits, two hexadecimal digits
LargeIds == {10, 16, 255}

Ids == (0..MaxId) \cup LargeIds

NoSent == [known |-> FALSE, t |-> 0, s |-> 0, p |-> 0, f |-> 0]

(***************************************************************************)
(* The state the codec is called in: the application has constructed a     *)
(* context (a new span), or a request has arrived with its headers.        *)
(***************************************************************************)
Constructed(c) ==
    /\ context = c
    /\ headers = <<>>
    /\ source = "none"
    /\ sent = NoSent
    /\ decoded = NoneCtx
    /\ parts = <<>>
    /\ last = "construct"
    /\ sampled_arg = "n/a"
    /\ raised = ""

NewContext ==
    \E t \in Ids, s \in Ids, p \in Ids, sa \in BOOLEAN, de \in BOOLEAN,
       sh \in BOOLEAN :
        Constructed(JaegerTraceContext(str_validator(t), str_validator(s), str_validator(p),
                                       sa, de, sh))

\* a root span built with parent_id=None
NewRootContext ==
    \E t \in Ids, s \in Ids, sa \in BOOLEAN, de \in BOOLEAN, sh \in BOOLEAN :
        Constructed(JaegerTraceContext(str_validator(t), str_validator(s), NoneVal, sa, de, sh))

Received(h, from) ==
    /\ headers = h
    /\ source = "inbound"
    /\ sent = from
    /\ context = NoneCtx
    /\ decoded = NoneCtx
    /\ parts = <<>>
    /\ last = "receive"
    /\ sampled_arg = "n/a"
    /\ raised = ""

\* a peer that writes the Jaeger format: four hexadecimal numerals
ReceiveFromPeer ==
    \E dialect \in PeerDialects, t \in Ids, s \in Ids, p \in Ids, f \in 0..MaxFlags :
        Received(<<Item(dialect[1],
                        Join(<<PeerHex(t, dialect[2]), PeerHex(s, dialect[2]),
                               PeerHex(p, dialect[2]), PeerHex(f, dialect[2])>>, ":"))>>,
                 [known |-> TRUE, t |-> t, s |-> s, p |-> p, f |-> f])

\* any text under the trace header
ReceiveRaw ==
    \E n \in FieldCounts :
        \E fields \in [1..n -> TokensFor(n)] :
            Received(<<Item(TRACE_ID_HEADER, Join(fields, ":"))>>, NoSent)

ReceiveOther ==
    \E h \in OtherHeaders : Received(h, NoSent)

Init ==
    \/ NewContext
    \/ NewRootContext
    \/ ReceiveFromPeer
    \/ ReceiveRaw
    \/ ReceiveOther

(***************************************************************************)
(* JaegerTraceContext.make_headers / make_context.  make_headers is called *)
(* on the context just constructed; make_context on the mapping that       *)
(* arrived, or on the one make_headers just returned.                      *)
(***************************************************************************)
JaegerMakeHeaders ==
    /\ last = "construct"
    /\ last' = "make_headers"
    /\ sampled_arg' = "n/a"
    /\ raised' = ""
    /\ headers' = make_headers(context)
    /\ source' = "make_headers"
    /\ UNCHANGED <<context, sent, decoded, parts>>

JaegerMakeContext ==
    /\ last \in {"receive", "make_headers"}
    /\ \E r \in {make_context(headers)} :
        /\ raised' = r.exc
        /\ decoded' = IF r.exc = "" THEN r.ret ELSE decoded
    /\ last' = "make_context"
    /\ sampled_arg' = "n/a"
    /\ parts' = ContextParts(headers)
    /\ UNCHANGED <<context, headers, source, sent>>

(***************************************************************************)
(* DummyTraceContext.make_headers / make_context, called where tracing is  *)
(* disabled, in place of the Jaeger ones.                                  *)
(***************************************************************************)
DummyMakeHeaders ==
    /\ last = "construct"
    /\ last' = "dummy_make_headers"
    /\ sampled_arg' = "n/a"
    /\ raised' = ""
    /\ headers' = Dummy_make_headers
    /\ source' = "dummy"
    /\ UNCHANGED <<context, sent, decoded, parts>>

DummyMakeContext ==
    /\ last = "receive"
    /\ \E arg \in {"omitted", "True", "False"} :
        /\ sampled_arg' = arg
        /\ decoded' = Dummy_make_context(headers, arg)
    /\ last' = "dummy_make_context"
    /\ raised' = ""
    /\ parts' = <<>>
    /\ UNCHANGED <<context, headers, source, sent>>

(***************************************************************************)
(* An assignment to a field of the context held.                           *)
(***************************************************************************)
IdFields == {"trace_id", "span_id", "parent_id"}

FlagFields == {"sampled", "debug", "shared"}

\* the value assigned to an id field
NewIdText == <<"f", "f">>

SetAttr ==
    /\ last \in {"construct", "make_headers", "make_context"}
    /\ context # NoneCtx
    /\ \/ \E name \in IdFields : context' = setattr(context, name, NewIdText)
       \/ \E name \in FlagFields : context' = setattr(context, name, ~context[name])
    /\ last' = "setattr"
    /\ sampled_arg' = "n/a"
    /\ raised' = ""
    /\ UNCHANGED <<headers, source, sent, decoded, parts>>

Next ==
    \/ JaegerMakeHeaders
    \/ JaegerMakeContext
    \/ DummyMakeHeaders
    \/ DummyMakeContext
    \/ SetAttr

Spec == Init /\ [][Next]_vars

(***************************************************************************)
(* What the claims speak of, stated on the text of the mapping itself.     *)
(***************************************************************************)
\* the positions of ':' in a text
Colons(v) == {i \in 1..Len(v) : v[i] = ":"}

\* the text behind the k-th ':' of v
AfterColon(v, k) ==
    SubSeq(v, (CHOOSE i \in Colons(v) : Cardinality({j \in Colons(v) : j < i}) = k - 1) + 1,
           Len(v))

\* the text behind the last ':' of v
LastField(v) == AfterColon(v, Cardinality(Colons(v)))

\* the mapping holds the trace header, in any spelling
HeaderPresent(h) == \E i \in 1..Len(h) : h[i].k \in KeySpellings

\* its value (of the last such item, which is the one a dict keeps)
HeaderValue(h) ==
    h[CHOOSE i \in 1..Len(h) :
        h[i].k \in KeySpellings /\ \A j \in (i + 1)..Len(h) : h[j].k \notin KeySpellings].v

\* the context was built from ints t > 0, s > 0, p >= 0
ValidContext(c) ==
    /\ c # NoneCtx
    /\ \E t \in Ids : t > 0 /\ c.trace_id = IntToStr(t)
    /\ \E s \in Ids : s > 0 /\ c.span_id = IntToStr(s)
    /\ \E p \in Ids : c.parent_id = IntToStr(p)

\* the flags of a context as a number: bit 0 sampled, bit 1 debug
FlagsOf(c) == (IF c.sampled THEN 1 ELSE 0) + (IF c.debug THEN 2 ELSE 0)

\* the four numerals of a value with 3 colons
FieldInts(v) ==
    [i \in 1..4 |-> to_int(IF i = 1 THEN SubSeq(v, 1, (CHOOSE c \in Colons(v) :
                                                        \A j \in Colons(v) : c <= j) - 1)
                    ELSE IF i = 4 THEN AfterColon(v, 3)
                    ELSE SubSeq(AfterColon(v, i - 1), 1,
                                Len(AfterColon(v, i - 1)) - Len(AfterColon(v, i)) - 1))]

\* a field is no numeral, or a number is out of its range
BadFields(ints) ==
    \/ \E i \in 1..4 : ~ints[i].ok
    \/ ints[1].val <= 0
    \/ ints[2].val <= 0
    \/ ints[3].val < 0
    \/ ints[4].val < 0

\* the cases in which make_context has to return None
MustFail(h) ==
    \/ ~HeaderPresent(h)
    \/ HeaderValue(h) = NoneVal
    \/ Cardinality(Colons(HeaderValue(h))) # 3
    \/ BadFields(FieldInts(HeaderValue(h)))

(***************************************************************************)
(* C1.  Round trip of the Jaeger codec: for a context C built from         *)
(* trace_id > 0, span_id > 0, parent_id >= 0, make_context(make_headers(C))*)
(* returns a context whose trace_id, span_id, parent_id, sampled and debug *)
(* are those of C and whose shared is false.                               *)
(***************************************************************************)
C1_RoundTrip ==
    (last = "make_context" /\ source = "make_headers" /\ ValidContext(context))
        => /\ raised = ""
           /\ decoded # NoneCtx
           /\ decoded.trace_id = context.trace_id
           /\ decoded.span_id = context.span_id
           /\ decoded.parent_id = context.parent_id
           /\ decoded.sampled = context.sampled
           /\ decoded.debug = context.debug
           /\ decoded.shared = FALSE

(***************************************************************************)
(* C2.  make_context fails soft: when the trace header is missing, or its  *)
(* value does not split into exactly 4 fields, or a field is no            *)
(* hexadecimal numeral (to_int raises), or trace_id <= 0, span_id <= 0,    *)
(* parent_id < 0 or flags < 0, make_context returns None; no exception     *)
(* reaches the caller, and no context is returned.                         *)
(***************************************************************************)
C2_FailSoft ==
    (last = "make_context" /\ MustFail(headers)) => (raised = "" /\ decoded = NoneCtx)

\* a value of four numerals whose trace_id is 0 has been refused
C2_Witness ==
    /\ last = "make_context"
    /\ HeaderPresent(headers)
    /\ HeaderValue(headers) # NoneVal
    /\ Cardinality(Colons(HeaderValue(headers))) = 3
    /\ \A i \in 1..4 : FieldInts(HeaderValue(headers))[i].ok
    /\ FieldInts(HeaderValue(headers))[1].val = 0
    /\ FieldInts(HeaderValue(headers))[3].val > 0
    /\ decoded = NoneCtx
    /\ raised = ""

(***************************************************************************)
(* C3.  Successful decode: for a value t:s:p:f of four hexadecimal         *)
(* numerals with t > 0 and s > 0, make_context returns the context with    *)
(* trace_id = t, span_id = s, parent_id = p (held as the str of the int),  *)
(* sampled = bit 0 of f, debug = bit 1 of f and shared = false; the other  *)
(* bits of f have no effect.                                               *)
(***************************************************************************)
C3_Decode ==
    (last = "make_context" /\ sent.known /\ sent.t > 0 /\ sent.s > 0)
        => /\ raised = ""
           /\ decoded = [kind |-> "ctx",
                         trace_id |-> IntToStr(sent.t),
                         span_id |-> IntToStr(sent.s),
                         parent_id |-> IntToStr(sent.p),
                         sampled |-> (sent.f % 2 = 1),
                         debug |-> ((sent.f \div 2) % 2 = 1),
                         shared |-> FALSE]

\* a value with a letter digit and flags 6 (bit 2 and bit 1) has been decoded
C3_Witness ==
    /\ last = "make_context"
    /\ sent.known
    /\ sent.t = 10
    /\ sent.s = 16
    /\ sent.f = 6
    /\ decoded # NoneCtx
    /\ decoded.debug
    /\ ~decoded.sampled

(***************************************************************************)
(* C4.  Wire format of make_headers: one entry, keyed uber-trace-id, whose *)
(* value is trace_id, span_id, parent_id, flags joined by 3 colons, each   *)
(* the lowercase hexadecimal numeral of its integer value.                 *)
(***************************************************************************)
C4_WireFormat ==
    last = "make_headers"
        => \A t \in Ids, s \in Ids, p \in Ids :
            (/\ context.trace_id = IntToStr(t)
             /\ context.span_id = IntToStr(s)
             /\ context.parent_id = IntToStr(p))
                => headers = <<Item(TRACE_ID_HEADER,
                                    Join(<<ToHex(t, HexLower), ToHex(s, HexLower),
                                           ToHex(p, HexLower),
                                           ToHex(FlagsOf(context), HexLower)>>, ":"))>>

(***************************************************************************)
(* C5.  Flag bits on encode: the flags field make_trace_id writes is 0     *)
(* when sampled and debug are false, 1 when only sampled is true, 2 when   *)
(* only debug is true, 3 when both are: always one of 0, 1, 2, 3, the      *)
(* sampled bit independent of debug and the debug bit of sampled.          *)
(***************************************************************************)
C5_FlagBits ==
    last = "make_headers"
        => /\ Len(headers) = 1
           /\ LastField(headers[1].v) =
                (CASE ~context.sampled /\ ~context.debug -> <<"0">>
                   [] context.sampled /\ ~context.debug -> <<"1">>
                   [] ~context.sampled /\ context.debug -> <<"2">>
                   [] OTHER -> <<"3">>)

\* a context with only debug set has been encoded
C5_Witness ==
    /\ last = "make_headers"
    /\ context.debug
    /\ ~context.sampled
    /\ LastField(headers[1].v) = <<"2">>

(***************************************************************************)
(* C6.  Case-insensitive lookup: for a mapping whose single key is the     *)
(* trace header in any spelling, make_context returns what it returns for  *)
(* the mapping with the key written uber-trace-id and the same value.      *)
(***************************************************************************)
C6_CaseInsensitive ==
    (last = "make_context" /\ Len(headers) = 1 /\ headers[1].k \in KeySpellings)
        => [ret |-> decoded, exc |-> raised]
             = make_context(<<Item(TRACE_ID_HEADER, headers[1].v)>>)

\* a mapping keyed Uber-Trace-Id has been decoded to a context
C6_Witness ==
    /\ last = "make_context"
    /\ Len(headers) = 1
    /\ headers[1].k = TitleKey
    /\ decoded # NoneCtx

(***************************************************************************)
(* C7.  No-op codec: DummyTraceContext.make_context returns, for every     *)
(* mapping, the context dummy-trace-id / dummy-span-id / dummy-parent-id   *)
(* with debug and shared false and sampled the argument given (true when   *)
(* omitted); DummyTraceContext.make_headers returns the empty mapping.     *)
(***************************************************************************)
C7_Dummy ==
    /\ last = "dummy_make_context"
        => /\ raised = ""
           /\ decoded =
                [kind |-> "ctx",
                 trace_id |-> <<"d", "u", "m", "m", "y", "-", "t", "r", "a", "c", "e", "-", "i", "d">>,
                 span_id |-> <<"d", "u", "m", "m", "y", "-", "s", "p", "a", "n", "-", "i", "d">>,
                 parent_id |-> <<"d", "u", "m", "m", "y", "-", "p", "a", "r", "e", "n", "t", "-", "i", "d">>,
                 sampled |-> (sampled_arg # "False"),
                 debug |-> FALSE,
                 shared |-> FALSE]
    /\ last = "dummy_make_headers" => (raised = "" /\ headers = <<>>)

\* a well-formed Jaeger header has been decoded by the dummy, sampled=False
C7_Witness ==
    /\ last = "dummy_make_context"
    /\ sampled_arg = "False"
    /\ sent.known
    /\ sent.t > 0
    /\ sent.s > 0
    /\ ~decoded.sampled

(***************************************************************************)
(* C8.  As claimed: make_headers of every dialect (Jaeger, Dummy) never    *)
(* fails and returns a non-empty mapping of header name to str.            *)
(***************************************************************************)
C8_EncodeNonEmpty ==
    last \in {"make_headers", "dummy_make_headers"}
        => /\ raised = ""
           /\ headers # <<>>
           /\ \A i \in 1..Len(headers) : headers[i].v # NoneVal

(***************************************************************************)
(* C8, amended.  make_headers of either dialect never fails; the Jaeger    *)
(* one returns a non-empty mapping of header name to str, the Dummy one    *)
(* the empty mapping.                                                      *)
(***************************************************************************)
C8_EncodeTotal ==
    /\ last = "make_headers"
        => /\ raised = ""
           /\ headers # <<>>
           /\ \A i \in 1..Len(headers) : headers[i].v # NoneVal
    /\ last = "dummy_make_headers" => (raised = "" /\ headers = <<>>)

\* a root context (parent_id None) has been encoded by the Jaeger dialect
C8_Witness ==
    /\ last = "make_headers"
    /\ context.parent_id = NoneVal
    /\ Len(headers) = 1

(***************************************************************************)
(* C9.  Immutability: a context, once constructed, never changes;          *)
(* make_headers, make_context and an assignment to one of its fields       *)
(* leave it as it was.                                                     *)
(***************************************************************************)
C9_Immutable == [][context # NoneCtx => context' = context]_vars

(***************************************************************************)
(* C10.  As claimed: parse_trace_id splits the value on ':' into at most   *)
(* 4 fields, the text behind the third colon folded into the fourth, and   *)
(* rejects the value unless exactly 4 fields result; a value with fewer or *)
(* more than 3 colons decodes to None.                                     *)
(***************************************************************************)
C10_SplitAtMost4 ==
    (last = "make_context" /\ HeaderPresent(headers) /\ HeaderValue(headers) # NoneVal)
        => /\ Len(parts) <= 4
           /\ Cardinality(Colons(HeaderValue(headers))) >= 3
                => parts[4] = AfterColon(HeaderValue(headers), 3)
           /\ Len(parts) # 4 => decoded = NoneCtx
           /\ Cardinality(Colons(HeaderValue(headers))) # 3 => decoded = NoneCtx

(***************************************************************************)
(* C10, amended.  parse_trace_id splits the value on ':' at most 4 times,  *)
(* into at most 5 fields, the text behind the fourth colon folded into the *)
(* fifth, and rejects the value unless exactly 4 fields result; a value    *)
(* with fewer or more than 3 colons decodes to None.                       *)
(***************************************************************************)
C10_SplitAtMost5 ==
    (last = "make_context" /\ HeaderPresent(headers) /\ HeaderValue(headers) # NoneVal)
        => /\ Len(parts) = (IF Cardinality(Colons(HeaderValue(headers))) >= 4 THEN 5
                            ELSE Cardinality(Colons(HeaderValue(headers))) + 1)
           /\ Cardinality(Colons(HeaderValue(headers))) >= 4
                => parts[5] = AfterColon(HeaderValue(headers), 4)
           /\ Len(parts) # 4 => decoded = NoneCtx
           /\ Cardinality(Colons(HeaderValue(headers))) # 3 => decoded = NoneCtx

\* a value with 5 colons has been split into 5 parts, the fifth holding a
\* colon, and refused
C10_Witness ==
    /\ last = "make_context"
    /\ HeaderPresent(headers)
    /\ HeaderValue(headers) # NoneVal
    /\ Cardinality(Colons(HeaderValue(headers))) = 5
    /\ Len(parts) = 5
    /\ Colons(parts[5]) # {}
    /\ decoded = NoneCtx

====
